---- MODULE Spec2Model ----
(***************************************************************************)
(* Model of the autonomous campaign builder: the LangGraph workflow built  *)
(* by build_campaign_workflow, the stage functions of agents/, the         *)
(* tenacity-wrapped safe_llm_invoke of core/llm.py and the Streamlit       *)
(* driver loop of demo_ui.py that streams the workflow, polls the stop     *)
(* flag and merges every streamed output into its CampaignState.           *)
(***************************************************************************)
EXTENDS Integers, Sequences, FiniteSets, TLC

VARIABLES ss, pc, i, wf, output, initial_state, call, mail, hist, index, feedback

vars == <<ss, pc, i, wf, output, initial_state, call, mail, hist, index, feedback>>

(***************************************************************************)
(* Strings the code manipulates character by character are sequences of    *)
(* one-character strings.                                                   *)
(***************************************************************************)
UpperChars == <<"A","B","C","D","E","F","G","H","I","J","K","L","M","N","O","P","Q","R","S","T","U","V","W","X","Y","Z">>

LowerChars == <<"a","b","c","d","e","f","g","h","i","j","k","l","m","n","o","p","q","r","s","t","u","v","w","x","y","z">>

\* str.lower() on one character
LowerChar(c) == IF \E n \in 1..Len(UpperChars) : UpperChars[n] = c
                THEN LowerChars[CHOOSE n \in 1..Len(UpperChars) : UpperChars[n] = c]
                ELSE c

\* str.lower()
Lower(s) == [n \in 1..Len(s) |-> LowerChar(s[n])]

NotDash(c) == c # "-"

\* str.replace("-", "")
RemoveDashes(s) == SelectSeq(s, NotDash)

\* domain = state.selected_domain.lower().replace("-", "")
NormDomain(d) == RemoveDashes(Lower(d))

K_automobiles == <<"a","u","t","o","m","o","b","i","l","e","s">>

K_healthcare == <<"h","e","a","l","t","h","c","a","r","e">>

K_powerenergy == <<"p","o","w","e","r","e","n","e","r","g","y">>

\* the keys of DOMAIN_PROMPTS, default_segments, default_campaigns
DomainKeys == {K_automobiles, K_healthcare, K_powerenergy}

\* the lookup forgets .lower()
DomainKey_nolower(d) == IF RemoveDashes(d) \in DomainKeys THEN RemoveDashes(d) ELSE K_automobiles

\* dict.get(domain, dict["automobiles"]): the key whose entry is used
DomainKey(d) == IF NormDomain(d) \in DomainKeys THEN NormDomain(d) ELSE K_automobiles

\* selected_domain is an unconstrained str of CampaignState. The values taken
\* here: the sidebar value "automotives" (no key of the domain tables), the key
\* "healthcare", and a spelling, passed to run_autonomous_campaign_builder(goal,
\* domain, ...), that only the normalisation maps onto the key "powerenergy"
Domains == { <<"a","u","t","o","m","o","t","i","v","e","s">>,
             <<"h","e","a","l","t","h","c","a","r","e">>,
             <<"P","o","w","e","r","-","E","n","e","r","g","y">> }

Providers == {"gemini", "openai"}

Goal == "Boost Q2 SUV sales in the Western region by 15%"

\* Python None for an Optional[str] field
Null == "<None>"

Text == "generated text"

(***************************************************************************)
(* CampaignState and the registry of stage functions.                      *)
(***************************************************************************)
\* AGENT_REGISTRY.keys(), in insertion order
AGENT_REGISTRY == << "research_market_trends", "segment_audience", "create_campaign_strategy",
                     "generate_content", "simulate_campaign", "generate_final_report",
                     "send_campaign_emails" >>

NotSendEmails(k) == k # "send_campaign_emails"

\* the filter also drops the report stage
workflow_nodes_short == SubSeq(AGENT_REGISTRY, 1, 5)

\* workflow_nodes = {k:v for k,v in AGENT_REGISTRY.items() if k != "send_campaign_emails"}
workflow_nodes == SelectSeq(AGENT_REGISTRY, NotSendEmails)

\* the field each stage function assigns (node_to_content in render_section)
node_to_content == [ research_market_trends   |-> "market_analysis",
                     segment_audience         |-> "audience_segments",
                     create_campaign_strategy |-> "campaign_strategy",
                     generate_content         |-> "campaign_content",
                     simulate_campaign        |-> "simulation_results",
                     generate_final_report    |-> "final_report",
                     send_campaign_emails     |-> "email_status" ]

OutputFields == << "market_analysis", "audience_segments", "campaign_strategy", "campaign_content",
                   "simulation_results", "final_report", "email_status" >>

\* the literal each stage stores when the response is falsy
Fallback == [ research_market_trends   |-> "No insights available",
              segment_audience         |-> "Audience segmentation failed",
              create_campaign_strategy |-> "Strategy generation failed",
              generate_content         |-> "Content generation failed",
              simulate_campaign        |-> "Simulation failed",
              generate_final_report    |-> "Report generation failed" ]

\* CampaignState(goal=..., vector_db=..., selected_domain=..., selected_llm=...)
\* email_status is a tuple: <<>> is None, otherwise <<message, ...>>
CampaignState(goal, vector_db, domain, llm) ==
    [ goal |-> goal, vector_db |-> vector_db, selected_domain |-> domain, selected_llm |-> llm,
      market_analysis |-> Null, audience_segments |-> Null, campaign_strategy |-> Null,
      campaign_content |-> Null, simulation_results |-> Null, final_report |-> Null,
      email_status |-> <<>>, sent_emails |-> <<>>, email_templates |-> <<>> ]

\* st.session_state.state = None
NoState == [ none |-> TRUE ]

\* whether an output field of a State holds a value
IsSet(s, f) == IF f = "email_status" THEN s[f] # <<>> ELSE s[f] # Null

(***************************************************************************)
(* Retrieval: vector_db.similarity_search(query, k=2).                     *)
(***************************************************************************)
DocCustomer == [ page_content |-> "customer row", category |-> "customer" ]

DocCampaign == [ page_content |-> "campaign row", category |-> "campaign" ]

DocSales == [ page_content |-> "sales row", category |-> "sales" ]

\* what one similarity search can do: raise, or return up to k=2 documents
SearchOutcomes == { [ raises |-> TRUE, docs |-> <<>> ] } \cup
                  { [ raises |-> FALSE, docs |-> d ] :
                      d \in { <<>>, <<DocSales>>, <<DocCustomer, DocCampaign>> } }

IsCustomer(doc) == doc.category = "customer"

IsCampaign(doc) == doc.category = "campaign"

\* "\n\n".join([doc.page_content for doc in docs]); the empty tuple is ""
JoinContent(docs) == [ n \in 1..Len(docs) |-> docs[n].page_content ]

SegSearchFailed == << "Vector database search failed. Using default segmentation." >>

SegNotAvailable == << "Vector database not available. Using default segmentation." >>

CampSearchFailed == << "Vector database search failed. Using default campaigns." >>

CampNotAvailable == << "Vector database not available. Using default campaigns." >>

\* default_segments.get(domain, default_segments["automobiles"])
default_segments(d) == << "default_segments", DomainKey(d) >>

\* default_campaigns.get(domain, default_campaigns["automobiles"])
default_campaigns(d) == << "default_campaigns", DomainKey(d) >>

\* segment_audience: the AVAILABLE SEGMENTS text of the prompt
segment_info(s, so) ==
    LET found == IF s.vector_db # "None"
                 THEN IF so.raises THEN SegSearchFailed
                      ELSE IF JoinContent(SelectSeq(so.docs, IsCustomer)) # <<>>
                           THEN JoinContent(SelectSeq(so.docs, IsCustomer))
                           ELSE JoinContent(so.docs)
                 ELSE SegNotAvailable
    IN IF found \in {SegSearchFailed, SegNotAvailable} THEN default_segments(s.selected_domain) ELSE found

\* create_campaign_strategy: the REFERENCE CAMPAIGNS text of the prompt
past_campaigns(s, so) ==
    LET found == IF s.vector_db # "None"
                 THEN IF so.raises THEN CampSearchFailed
                      ELSE IF JoinContent(SelectSeq(so.docs, IsCampaign)) # <<>>
                           THEN JoinContent(SelectSeq(so.docs, IsCampaign))
                           ELSE JoinContent(so.docs)
                 ELSE CampNotAvailable
    IN IF found \in {CampSearchFailed, CampNotAvailable} THEN default_campaigns(s.selected_domain) ELSE found

\* the stages that query the retrieval index
UsesRetrieval(node) == node \in {"segment_audience", "create_campaign_strategy"}

\* the reference context a stage puts in its prompt
Context(node, s, so) == IF node = "segment_audience" THEN segment_info(s, so)
                        ELSE IF node = "create_campaign_strategy" THEN past_campaigns(s, so)
                        ELSE <<>>

\* generate_content also slices the simulation results, which a later stage writes
UnguardedReads_forward(node) ==
    IF node = "generate_content" THEN {"audience_segments", "campaign_strategy", "simulation_results"}
    ELSE IF node = "simulate_campaign" THEN {"campaign_strategy", "campaign_content"}
    ELSE IF node = "generate_final_report"
         THEN {"market_analysis", "audience_segments", "campaign_strategy", "campaign_content", "simulation_results"}
    ELSE {}

\* the prior fields a stage slices without a guard: state.f[:n] raises TypeError on None
UnguardedReads(node) ==
    IF node = "generate_content" THEN {"audience_segments", "campaign_strategy"}
    ELSE IF node = "simulate_campaign" THEN {"campaign_strategy", "campaign_content"}
    ELSE IF node = "generate_final_report"
         THEN {"market_analysis", "audience_segments", "campaign_strategy", "campaign_content", "simulation_results"}
    ELSE {}

\* the prior fields a stage reads behind a guard ("... if state.f else <placeholder>")
GuardedReads(node) ==
    IF node = "segment_audience" THEN {"market_analysis"}
    ELSE IF node = "create_campaign_strategy" THEN {"market_analysis", "audience_segments"}
    ELSE IF node = "send_campaign_emails" THEN {"campaign_strategy"}
    ELSE {}

\* the output fields a stage function reads
Reads(node) == GuardedReads(node) \cup UnguardedReads(node)

\* building the prompt raises
PromptRaises(node, s) == \E f \in UnguardedReads(node) : s[f] = Null

\* a falsy response leaves None in the field
StageWrite_null(node, s, response) ==
    [ s EXCEPT ![node_to_content[node]] = IF response = "none" THEN Null ELSE Text ]

\* the stage rebuilds the State and loses the report already stored
StageWrite_drops(node, s, response) ==
    [ s EXCEPT ![node_to_content[node]] = IF response = "none" THEN Fallback[node] ELSE Text,
               !.final_report = IF node = "generate_final_report" THEN Text ELSE Null ]

\* response.content if response else "<fallback>": a response is "text" (a message
\* with content), "empty" (a message whose content is "": a message object is
\* truthy whatever its content) or "none" (a falsy value)
StageValue(node, response) ==
    IF response = "none" THEN Fallback[node]
    ELSE IF response = "empty" THEN "" ELSE Text

\* state.<field> = response.content if response else "<fallback>"
StageWrite(node, s, response) ==
    [ s EXCEPT ![node_to_content[node]] = StageValue(node, response) ]

(***************************************************************************)
(* safe_llm_invoke: one backend attempt, its error classification and the  *)
(* tenacity policy @retry(stop=stop_after_attempt(5), wait=...).           *)
(***************************************************************************)
\* stop_after_attempt(5)
StopAfterAttempt == 5

RateLimitTerms == {"quota", "429", "rate limit", "too many requests"}

AuthTerms == {"authentication", "auth", "key", "unauthorized", "401"}

\* error messages of the backend, each given by the marker terms it contains
ErrorMessages == { {"429", "quota"}, {"401", "unauthorized", "auth"}, {"quota", "key"}, {"timeout"} }

\* what llm.invoke returns when it does not raise: a message with content, a message
\* whose content is "", or a falsy value
StageResponses == {"text", "empty", "none"}

\* the answers followed through a whole run; a single stage call made on a finished
\* State is followed for every answer of StageResponses
Responses == {"text", "none"}

\* the authentication markers are looked for first
Classify_authfirst(msg) == IF msg \cap AuthTerms # {} THEN "authentication"
                           ELSE IF msg \cap RateLimitTerms # {} THEN "rate_limit"
                           ELSE "other"

\* the branch of the except clause an error message takes
Classify(msg) == IF msg \cap RateLimitTerms # {} THEN "rate_limit"
                 ELSE IF msg \cap AuthTerms # {} THEN "authentication"
                 ELSE "other"

\* the exception that leaves the function body for an error message
Raised(msg) == IF Classify(msg) = "authentication" THEN "ValueError" ELSE "BackendError"

\* the stop is compared with > instead of >=
GivesUp_late(attempts) == attempts > StopAfterAttempt

\* tenacity's default retry predicate retries on every exception; it gives up
\* once the attempt number reaches the stop, and then raises RetryError
GivesUp(attempts) == attempts >= StopAfterAttempt

\* send_campaign_emails is not running
NoMail == [ phase |-> "idle", rows |-> <<>>, idx |-> 0, sent_count |-> 0, failed_count |-> 0,
            sent_emails |-> <<>>, retries |-> 0, backend |-> 0 ]

NoCall == [ owner |-> "none", node |-> "", attempts |-> 0, ctx |-> <<>> ]

NewCall(owner, node, ctx) == [ owner |-> owner, node |-> node, attempts |-> 0, ctx |-> ctx ]

(***************************************************************************)
(* History variables: what the properties need to remember of a run.       *)
(***************************************************************************)
NoInvoke == [ attempts |-> 0, class |-> "", sawAuth |-> FALSE, result |-> "none" ]

NoRegen == [ node |-> "", done |-> FALSE, response |-> "" ]

NoStop == [ marked |-> FALSE, returned |-> 0, merged |-> 0, inflight |-> FALSE ]

\* what is remembered of the last call of send_campaign_emails: the rows of the
\* file, the customer ids the loop took up, what kept the loop from starting, how
\* the call ended
NoMailRun == [ input |-> <<>>, processed |-> <<>>, cause |-> "", outcome |-> "" ]

HistInit == [ executed |-> <<>>, returned |-> <<>>, anyCall |-> FALSE, onlyRate |-> TRUE,
              last |-> NoInvoke, regen |-> NoRegen, stop |-> NoStop,
              ended |-> "", ctxSource |-> "", regens |-> 0,
              mailrun |-> NoMailRun, firstSent |-> <<>>, pending |-> FALSE ]

\* the retrieval situation a stage met: index absent, search raised, or documents returned
CtxSource(node, s, so) == IF ~UsesRetrieval(node) THEN ""
                          ELSE IF s.vector_db = "None" THEN "absent"
                          ELSE IF so.raises THEN "error"
                          ELSE IF so.docs = <<>> THEN "nodocs" ELSE "docs"

(***************************************************************************)
(* The retrieval index: initialize_vector_db (core/vector_db.py) and       *)
(* embed_and_store (chunks.py).                                            *)
(***************************************************************************)
\* rows of the data files of the domain
MaxDocs == 3

\* calls of an index constructor on one persist directory
MaxBuilds == 2

\* batch_size = 50 in initialize_vector_db, scaled to the corpus
BatchSize == 2

\* row n of the corpus: the sales file comes first, then the campaign file; the
\* metadata of the document made of it
Doc(n) == IF n <= 2 THEN [ source |-> "sales.csv", row |-> n - 1, category |-> "sales" ]
          ELSE [ source |-> "campaigns.csv", row |-> n - 3, category |-> "campaign" ]

\* all_docs of load_documents_by_domain for data files with n rows in all
Corpus(n) == [ k \in 1..n |-> Doc(k) ]

Corpora == { Corpus(n) : n \in 0..MaxDocs }

\* the documents made when no data file was found; they have no "row"
DummyDocs == << [ source |-> "dummy", row |-> "None", category |-> "sales" ],
                [ source |-> "dummy", row |-> "None", category |-> "campaign" ],
                [ source |-> "dummy", row |-> "None", category |-> "customer" ] >>

\* the key of an entry: (source file, row number)
KeyOf(doc) == << doc.source, doc.row >>

Keys(docs) == { KeyOf(docs[k]) : k \in 1..Len(docs) }

Min(a, b) == IF a <= b THEN a ELSE b

\* the elements of a sequence at the positions of a set, in order
RECURSIVE Pick(_, _, _)
Pick(docs, keep, k) == IF k > Len(docs) THEN <<>>
                       ELSE (IF k \in keep THEN << docs[k] >> ELSE <<>>) \o Pick(docs, keep, k + 1)

\* Chroma.from_documents / add_documents without ids: every document becomes a new
\* entry of the persisted collection under a fresh id
AddDocuments(entries, docs) == entries \o docs

\* the documents initialize_vector_db indexes for a corpus
AllDocs(corpus) == IF Len(corpus) = 0 THEN DummyDocs ELSE corpus

\* how one call of initialize_vector_db can go: the embeddings cannot be made
\* (raises), the Chroma store cannot be created and the in-memory store is
\* returned (or None when that fails too), or the store is built, where "kept"
\* are the documents after the first batch that were added (a batch that fails
\* is retried document by document, and a document that fails again is skipped)
BuildOutcomes(all_docs) ==
    { [ result |-> r, written |-> FALSE, kept |-> {} ] : r \in {"raise", "fallback", "none"} }
    \cup { [ result |-> "ok", written |-> TRUE, kept |-> K ] : K \in SUBSET ((BatchSize + 1)..Len(all_docs)) }

\* initialize_vector_db: the persisted collection of chroma_db_<domain>_<provider>
\* after a call with outcome o
InitializeVectorDb(entries, corpus, o) ==
    LET all_docs    == AllDocs(corpus)
        first_batch == SubSeq(all_docs, 1, Min(BatchSize, Len(all_docs)))
    IN IF o.written
       THEN AddDocuments(AddDocuments(entries, first_batch), Pick(all_docs, o.kept, 1))
       ELSE entries

\* what initialize_vector_db gives its caller
BuildValue(o) == IF o.result = "raise" THEN "raise"
                 ELSE IF o.result = "none" THEN "None" ELSE "handle"

\* chunks.py: the persist directory of a collection does not exist
Absent == [ exists |-> FALSE, docs |-> <<>> ]

\* embed_and_store(docs, persist_dir, collection_name, embedding_model, reset)
EmbedAndStore(collection, docs, reset) ==
    LET after_reset == IF reset THEN Absent ELSE collection
        db_exists   == after_reset.exists
    IN IF ~db_exists
       THEN [ exists |-> TRUE, docs |-> AddDocuments(<<>>, docs) ]
       ELSE LET existing_keys == Keys(after_reset.docs)
                IsNew(doc) == KeyOf(doc) \notin existing_keys
                new_docs == SelectSeq(docs, IsNew)
            IN IF new_docs # <<>>
               THEN [ after_reset EXCEPT !.docs = AddDocuments(@, new_docs) ]
               ELSE after_reset

\* nothing built yet: an empty persist directory, no collection of chunks.py, an
\* empty st.cache_resource; builds and stores count the constructor calls that wrote
NoIndex(corpus) == [ corpus |-> corpus, entries |-> <<>>, collection |-> Absent,
                     cached |-> "no", builds |-> 0, stores |-> 0 ]

(***************************************************************************)
(* The feedback file of utils/feedback.py: a directory and a CSV file,     *)
(* held as its lines, each line the list of its fields as written.         *)
(***************************************************************************)
\* pd.DataFrame(columns=["id", "timestamp", "node_name", "user_rating"])
FeedbackColumns == << "id", "timestamp", "node_name", "user_rating" >>

\* str(uuid.uuid4()): the n-th value drawn
Uuid4 == << "uuid-1", "uuid-2", "uuid-3", "uuid-4", "uuid-5", "uuid-6", "uuid-7", "uuid-8" >>

\* datetime.datetime.now().isoformat() at clock reading n + 1
IsoFormat == << "2023-01-01T12:00:00", "2023-01-01T12:00:01", "2023-01-01T12:00:02", "2023-01-01T12:00:03",
               "2023-01-01T12:00:04", "2023-01-01T12:00:05", "2023-01-01T12:00:06", "2023-01-01T12:00:07",
               "2023-01-01T12:00:08" >>

\* the text to_csv writes for a value of the user_rating column
CsvField(v) == IF v.int THEN << "0", "1", "2", "3", "4", "5" >>[v.num + 1] ELSE v.str

\* df.to_csv(path, mode=..., header=..., index=False) on a file of the given lines
to_csv(lines, columns, rows, mode, header) ==
    (IF mode = "a" THEN lines ELSE <<>>) \o (IF header THEN << columns >> ELSE <<>>) \o rows

\* pd.read_csv(path): the first line names the columns, the others are the rows
read_csv(lines) == [ columns |-> Head(lines), rows |-> Tail(lines) ]

\* neither the directory nor the file exists; no id drawn, clock at its start
NoFeedback == [ dir |-> FALSE, exists |-> FALSE, lines |-> <<>>, uuids |-> 0, now |-> 0, calls |-> 0 ]

\* the file is written whether or not it exists
init_feedback_csv_overwrite(fb) ==
    [ fb EXCEPT !.dir = TRUE, !.exists = TRUE,
                !.lines = to_csv(<<>>, FeedbackColumns, <<>>, "w", TRUE) ]

\* os.makedirs(FEEDBACK_DIR, exist_ok=True); the file is written only if it is absent
init_feedback_csv(fb) ==
    IF fb.exists THEN [ fb EXCEPT !.dir = TRUE ]
    ELSE [ fb EXCEPT !.dir = TRUE, !.exists = TRUE,
                     !.lines = to_csv(<<>>, FeedbackColumns, <<>>, "w", TRUE) ]

\* the row of one feedback entry
FeedbackRow(fb, node_name, user_rating) ==
    << Uuid4[fb.uuids + 1], IsoFormat[fb.now + 1], node_name, CsvField(user_rating) >>

\* the row is written with its header
save_node_feedback_header(fb, node_name, user_rating) ==
    [ fb EXCEPT !.exists = TRUE, !.uuids = @ + 1,
                !.lines = to_csv(@, FeedbackColumns, << FeedbackRow(fb, node_name, user_rating) >>, "a", TRUE) ]

\* df = pd.DataFrame([feedback]); df.to_csv(FEEDBACK_FILE, mode="a", header=False, index=False)
save_node_feedback(fb, node_name, user_rating) ==
    [ fb EXCEPT !.exists = TRUE, !.uuids = @ + 1,
                !.lines = to_csv(@, FeedbackColumns, << FeedbackRow(fb, node_name, user_rating) >>, "a", FALSE) ]

(***************************************************************************)
(* The Streamlit session and the driver loop of main().                    *)
(***************************************************************************)
SessionInit(domain, llm) ==
    [ state |-> NoState, selected_llm |-> llm, selected_domain |-> domain, stop_requested |-> FALSE,
      active_tab |-> 0, tab_contents |-> <<>>, generated |-> FALSE, generation_complete |-> FALSE ]

Init == /\ \E d \in Domains, l \in Providers : ss = SessionInit(d, l)
        /\ pc = "not_started"
        /\ i = 0
        /\ wf = NoState
        /\ output = ""
        /\ initial_state = NoState
        /\ call = NoCall
        /\ mail = NoMail
        /\ hist = HistInit
        /\ index = NoIndex(Corpus(BatchSize))
        /\ feedback = NoFeedback

RunOver == pc \in {"not_started", "completed", "stopped", "failed"}

\* the flag of an earlier Stop is left as it is
Generate_keepflag ==
    /\ RunOver
    /\ UNCHANGED <<index, feedback>>
    /\ ss' = [ ss EXCEPT !.generated = TRUE, !.generation_complete = FALSE, !.tab_contents = <<>> ]
    /\ pc' = "start"
    /\ i' = 0
    /\ wf' = NoState
    /\ output' = ""
    /\ initial_state' = NoState
    /\ call' = NoCall
    /\ mail' = NoMail
    /\ hist' = [ HistInit EXCEPT !.pending = ss.stop_requested ]

\* the Generate button
Generate == /\ RunOver
            /\ UNCHANGED <<index, feedback>>
            /\ ss' = [ ss EXCEPT !.generated = TRUE, !.generation_complete = FALSE,
                                 !.stop_requested = FALSE, !.tab_contents = <<>> ]
            /\ pc' = "start"
            /\ i' = 0
            /\ wf' = NoState
            /\ output' = ""
            /\ initial_state' = NoState
            /\ call' = NoCall
            /\ mail' = NoMail
            /\ hist' = [ HistInit EXCEPT !.pending = ss.stop_requested ]

\* the Back button
Back == /\ RunOver
        /\ UNCHANGED <<index, feedback>>
        /\ ss' = [ ss EXCEPT !.generated = FALSE, !.generation_complete = FALSE,
                             !.stop_requested = FALSE, !.tab_contents = <<>>, !.active_tab = 0 ]
        /\ pc' = "not_started"
        /\ i' = 0
        /\ wf' = NoState
        /\ output' = ""
        /\ initial_state' = NoState
        /\ call' = NoCall
        /\ mail' = NoMail
        /\ hist' = HistInit

\* the Stop button
RequestStop == /\ ~ss.stop_requested
               /\ UNCHANGED <<index, feedback>>
               /\ ss' = [ ss EXCEPT !.stop_requested = TRUE ]
               /\ hist' = [ hist EXCEPT !.stop =
                              IF RunOver THEN @
                              ELSE [ marked |-> TRUE, returned |-> Len(hist.returned),
                                     merged |-> i, inflight |-> call.owner = "run" ] ]
               /\ UNCHANGED <<pc, i, wf, output, initial_state, call, mail>>

\* "Process stopped by user": generated = False; st.stop()
Stopped == /\ ss' = [ ss EXCEPT !.generated = FALSE ]
           /\ pc' = "stopped"
           /\ hist' = [ hist EXCEPT !.ended = "stopped" ]
           /\ UNCHANGED <<i, wf, output, initial_state, call>>

\* except Exception in main(): st.error; generated = False; st.stop()
Failed == /\ ss' = [ ss EXCEPT !.generated = FALSE ]
          /\ pc' = "failed"

\* what run_autonomous_campaign_builder can do: return a State with a vector store,
\* return a State whose vector_db is None (initialize_vector_db found no store to
\* build), or raise
BuilderOutcomes == {"ok", "none", "raise"}

\* first stop check, then run_autonomous_campaign_builder(goal, domain, model_provider)
RunStart == /\ pc = "start"
            /\ UNCHANGED <<mail, feedback>>
            /\ IF ss.stop_requested THEN Stopped /\ UNCHANGED <<index, feedback>>
               ELSE \E o \in BuildOutcomes(AllDocs(index.corpus)), later \in {"ok", "raise"} :
                      LET hit == index.cached # "no"
                          vdb == IF hit THEN index.cached ELSE BuildValue(o)
                          b   == IF vdb = "raise" \/ later = "raise" THEN "raise"
                                 ELSE IF vdb = "None" THEN "none" ELSE "ok"
                      IN /\ b \in BuilderOutcomes
                         /\ index' = IF hit THEN index
                                     ELSE [ index EXCEPT
                                              !.entries = InitializeVectorDb(@, index.corpus, o),
                                              !.cached = IF vdb = "raise" THEN "no" ELSE vdb,
                                              !.builds = IF o.written THEN @ + 1 ELSE @ ]
                         /\ IF b = "raise"
                            THEN /\ Failed
                                 /\ hist' = [ hist EXCEPT !.ended = "failed" ]
                                 /\ UNCHANGED <<i, wf, output, initial_state, call>>
                            ELSE /\ initial_state' =
                                      CampaignState(Goal, IF b = "none" THEN "None" ELSE "handle",
                                                    ss.selected_domain,
                                                    IF ss.selected_llm = "gemini" THEN "gemini" ELSE "openai")
                                 /\ wf' = initial_state'
                                 /\ pc' = "built"
                                 /\ UNCHANGED <<ss, i, output, call, hist>>

\* second stop check, before the stream is started
RunBuilt == /\ pc = "built"
            /\ UNCHANGED <<mail, index, feedback>>
            /\ IF ss.stop_requested THEN Stopped
               ELSE /\ pc' = "next"
                    /\ UNCHANGED <<ss, i, wf, output, initial_state, call, hist>>

\* position of a node in the registry, minus one: the tab the loop writes for it
TabOf(node) == (CHOOSE n \in 1..Len(AGENT_REGISTRY) : AGENT_REGISTRY[n] = node) - 1

\* tab_contents[tab] = {"node": node, "content": content}
SetTab(tabs, tab, entry) == [ t \in (DOMAIN tabs) \cup {tab} |-> IF t = tab THEN entry ELSE tabs[t] ]

\* the part of a stage function before safe_llm_invoke raises: the web search of
\* research_market_trends fails, or a prompt slices a field that is None
PreludeRaises(node, s, tavily) == \/ node = "research_market_trends" /\ tavily = "raises"
                                  \/ PromptRaises(node, s)

\* next(stream): the generator runs the next node of the graph, or is exhausted
StreamNext ==
    /\ pc = "next"
    /\ UNCHANGED <<mail, index, feedback>>
    /\ IF i = Len(workflow_nodes)
       THEN /\ pc' = "completed"
            /\ hist' = [ hist EXCEPT !.ended = "completed", !.stop = NoStop ]
            /\ UNCHANGED <<ss, i, wf, output, initial_state, call>>
       ELSE LET node == workflow_nodes[i + 1] IN
            \E so \in SearchOutcomes, tavily \in {"ok", "raises"} :
               IF PreludeRaises(node, wf, tavily)
               THEN /\ Failed
                    /\ hist' = [ hist EXCEPT !.executed = Append(@, node), !.ended = "failed" ]
                    /\ UNCHANGED <<i, wf, output, initial_state, call>>
               ELSE /\ call' = NewCall("run", node, Context(node, wf, so))
                    /\ pc' = "stage"
                    /\ hist' = [ hist EXCEPT !.executed = Append(@, node), !.last = NoInvoke,
                                             !.ctxSource = CtxSource(node, wf, so) ]
                    /\ UNCHANGED <<ss, i, wf, output, initial_state>>

\* bookkeeping of one backend attempt that raised an error with message msg
NoteError(h, msg, result) ==
    [ h EXCEPT !.anyCall = TRUE,
               !.onlyRate = @ /\ Classify(msg) = "rate_limit",
               !.last = [ attempts |-> @.attempts + 1, class |-> Classify(msg),
                          sawAuth |-> @.sawAuth \/ Classify(msg) = "authentication",
                          result |-> result ] ]

\* "key in obj": a dict is asked for the key; a CampaignState is iterated, and what
\* a pydantic model yields are (name, value) pairs, none of them equal to a field name
Contains(kind, obj, key) == kind = "dict" /\ key \in DOMAIN obj

\* the end of the Regenerate handler of render_section, new_state being the
\* CampaignState the stage function returned
RenderRegenerate(session, node_name, new_state) ==
    IF Contains("CampaignState", new_state, node_to_content[node_name])
    THEN [ session EXCEPT !.tab_contents[session.active_tab].content = new_state[node_to_content[node_name]],
                          !.state = new_state ]
    ELSE session

\* llm.invoke returns: safe_llm_invoke returns the response and the stage stores its field
InvokeReturn ==
    /\ call.owner \in {"run", "regen"}
    /\ UNCHANGED <<mail, index, feedback>>
    /\ \E r \in (IF call.owner = "run" THEN Responses ELSE StageResponses) :
         LET h == [ hist EXCEPT !.anyCall = TRUE, !.onlyRate = FALSE,
                                !.last = [ @ EXCEPT !.attempts = @ + 1, !.class = "", !.result = "returned" ] ]
         IN IF call.owner = "run"
            THEN /\ wf' = StageWrite(call.node, wf, r)
                 /\ output' = call.node
                 /\ pc' = "yielded"
                 /\ hist' = [ h EXCEPT !.returned = Append(@, call.node), !.ctxSource = "" ]
                 /\ UNCHANGED <<ss, i, initial_state>>
            ELSE /\ initial_state' = StageWrite(call.node, initial_state, r)
                 /\ pc' = "completed"
                 /\ ss' = RenderRegenerate(ss, call.node, initial_state')
                 /\ hist' = [ h EXCEPT !.regen.done = TRUE, !.regen.response = r,
                                       !.ctxSource = "", !.last = NoInvoke ]
                 /\ UNCHANGED <<i, wf, output>>
    /\ call' = NoCall

\* llm.invoke raises and tenacity calls the function again
InvokeRetry ==
    /\ call.owner \in {"run", "regen"}
    /\ UNCHANGED <<mail, index, feedback>>
    /\ ~GivesUp(call.attempts + 1)
    /\ \E msg \in ErrorMessages :
         hist' = NoteError(hist, msg, "retrying")
    /\ call' = [ call EXCEPT !.attempts = @ + 1 ]
    /\ UNCHANGED <<ss, pc, i, wf, output, initial_state>>

\* llm.invoke raises on the last attempt: RetryError leaves safe_llm_invoke and the stage
InvokeGiveUp ==
    /\ call.owner \in {"run", "regen"}
    /\ UNCHANGED <<mail, index, feedback>>
    /\ GivesUp(call.attempts + 1)
    /\ \E msg \in ErrorMessages :
         LET h == NoteError(hist, msg, "RetryError")
         IN IF call.owner = "run"
            THEN /\ Failed
                 /\ hist' = [ h EXCEPT !.ended = "failed", !.ctxSource = "" ]
                 /\ UNCHANGED <<i, wf, output, initial_state>>
            ELSE /\ pc' = "completed"
                 /\ hist' = [ h EXCEPT !.regen.done = TRUE, !.regen.response = "raise",
                                       !.ctxSource = "", !.last = NoInvoke ]
                 /\ UNCHANGED <<ss, i, wf, output, initial_state>>
    /\ call' = NoCall

\* the body of "for i, output in enumerate(campaign_workflow.stream(initial_state))":
\* the stop check, then the merge of the streamed state and the tab update
LoopBody ==
    /\ pc = "yielded"
    /\ UNCHANGED <<mail, index, feedback>>
    /\ IF ss.stop_requested THEN Stopped
       ELSE LET field == node_to_content[output]
                tabbed == [ ss EXCEPT !.tab_contents = SetTab(@, TabOf(output),
                                          [ node |-> output, content |-> wf[field] ]),
                                      !.active_tab = TabOf(output) ]
            IN /\ initial_state' = wf
               /\ ss' = IF output = "send_campaign_emails"
                        THEN [ tabbed EXCEPT !.state = initial_state', !.generation_complete = TRUE ]
                        ELSE tabbed
               /\ i' = i + 1
               /\ pc' = "next"
               /\ hist' = [ hist EXCEPT !.last = NoInvoke, !.pending = FALSE ]
               /\ UNCHANGED <<wf, output, call>>

Next == \/ Generate
        \/ Back
        \/ RequestStop
        \/ RunStart
        \/ RunBuilt
        \/ StreamNext
        \/ InvokeReturn
        \/ InvokeRetry
        \/ InvokeGiveUp
        \/ LoopBody

Spec == Init /\ [][Next]_vars

(***************************************************************************)
(* send_campaign_emails and its helpers.                                   *)
(***************************************************************************)
\* rows of filtered_customers.csv that are read
MaxRows == 3

\* regenerations made on one finished run
MaxRegens == 1

\* generate_content_with_retry(prompt, state, max_retries=3)
MaxContentRetries == 3

\* row n of the file; a missing email is the empty tuple (NaN)
Row(n, valid) == [ customer_id |-> n, full_name |-> << "name", n >>,
                   email |-> IF valid THEN << "email", n >> ELSE <<>> ]

RowLists == UNION { { [ n \in 1..len |-> Row(n, v[n]) ] : v \in [ 1..len -> BOOLEAN ] } : len \in 0..MaxRows }

\* customer_data['email'].notna()
HasEmail(row) == row.email # <<>>

\* customer_data.head(1)
Head1(rows) == IF rows = <<>> THEN <<>> ELSE << rows[1] >>

\* the summary text stored in email_status, by the three numbers it shows
Summary(total, sent, failed) == << "Summary", total, sent, failed >>

MailFailed == << "Email sending failed: ", "exception" >>

\* what llm.invoke returns to generate_content_with_retry when it does not raise: a
\* message with content, a message whose content is "", or a falsy value
MailResponses == {"text", "empty", "none"}

\* parse_email_content and process_email_formatting of the text generated for a row
Template(row) == [ subject |-> << "subject", row.customer_id >>, content |-> << "body", row.customer_id >> ]

SentRecord(row) == [ customer_id |-> row.customer_id, name |-> row.full_name, email |-> row.email,
                     subject |-> Template(row).subject ]

\* the failure is not counted
MailFail_uncounted(m) == [ m EXCEPT !.phase = "recipient", !.idx = @ + 1, !.retries = 0 ]

\* every sent email is stored as a template
StoreTemplate_always(templates, t) == Append(templates, t)

\* "Store template if first email": if not state.email_templates: append
StoreTemplate(templates, t) == IF templates = <<>> THEN Append(templates, t) ELSE templates

\* the recipient at mail.idx was counted as failed: continue with the next one
MailFail(m) == [ m EXCEPT !.phase = "recipient", !.idx = @ + 1, !.failed_count = @ + 1, !.retries = 0 ]

\* what keeps send_campaign_emails from reaching its loop, in the order of the code:
\* int() of SMTP_PORT, the credentials, the file, the filter, the SMTP login
MailCause(port, creds, file, smtp, valid) ==
    IF port = "malformed" THEN "port"
    ELSE IF ~creds THEN "credentials"
    ELSE IF file = "missing" THEN "file_not_found"
    ELSE IF file = "broken" THEN "load_error"
    ELSE IF valid = <<>> THEN "no_emails"
    ELSE IF smtp = "raises" THEN "connect_error"
    ELSE ""

\* a file without emails leaves the status as it was
EarlyStatus_silent(cause) ==
    IF cause = "credentials" THEN << "Email sending failed: Missing email credentials" >>
    ELSE IF cause = "file_not_found" THEN << "Email sending failed: Customer data file not found" >>
    ELSE IF cause = "no_emails" THEN <<>>
    ELSE MailFailed

\* the email_status stored on the early returns and by the outer except
EarlyStatus(cause) ==
    IF cause = "credentials" THEN << "Email sending failed: Missing email credentials" >>
    ELSE IF cause = "file_not_found" THEN << "Email sending failed: Customer data file not found" >>
    ELSE IF cause = "no_emails" THEN << "No customer emails found" >>
    ELSE MailFailed

\* the part of send_campaign_emails before the loop: configuration, credentials,
\* file, filter, SMTP login
SendEmailsBegin ==
    \E port \in {"ok", "malformed"}, creds \in BOOLEAN, file \in {"ok", "missing", "broken"},
       smtp \in {"ok", "raises"}, rows \in RowLists :
       LET valid == SelectSeq(rows, HasEmail)
           cause == MailCause(port, creds, file, smtp, valid)
           run   == [ NoMailRun EXCEPT !.input = IF file = "ok" THEN rows ELSE <<>>, !.cause = cause ]
       IN IF cause = "port"
          THEN \* int(os.getenv("SMTP_PORT", 465)) raises ValueError out of the function
               /\ mail' = NoMail
               /\ pc' = "completed"
               /\ hist' = [ hist EXCEPT !.regen = [ node |-> "send_campaign_emails", done |-> TRUE, response |-> "" ],
                                        !.regens = @ + 1,
                                        !.mailrun = [ run EXCEPT !.input = <<>>, !.outcome = "raised" ] ]
               /\ UNCHANGED initial_state
          ELSE IF cause # ""
          THEN /\ initial_state' = [ initial_state EXCEPT !.email_status = EarlyStatus(cause) ]
               /\ mail' = NoMail
               /\ pc' = "completed"
               /\ hist' = [ hist EXCEPT !.regen = [ node |-> "send_campaign_emails", done |-> TRUE, response |-> "" ],
                                        !.regens = @ + 1,
                                        !.mailrun = [ run EXCEPT !.outcome = "returned" ] ]
          ELSE /\ mail' = [ NoMail EXCEPT !.phase = "recipient", !.rows = Head1(valid), !.idx = 1 ]
               /\ pc' = "regen"
               /\ hist' = [ hist EXCEPT !.regen = [ node |-> "send_campaign_emails", done |-> FALSE, response |-> "" ],
                                        !.regens = @ + 1,
                                        !.mailrun = [ run EXCEPT !.outcome = "running" ] ]
               /\ UNCHANGED initial_state

\* top of "for _, customer in customer_data.iterrows()": the next recipient, or the
\* end of the loop, where sent_emails and email_status are stored and the SMTP
\* connection is closed
MailRecipient ==
    /\ UNCHANGED <<index, feedback>>
    /\ pc = "regen"
    /\ mail.phase = "recipient"
    /\ IF mail.idx > Len(mail.rows)
       THEN /\ \E quit \in {"ok", "raises"} :
                 initial_state' = [ initial_state EXCEPT
                     !.sent_emails = mail.sent_emails,
                     !.email_status = IF quit = "ok"
                                      THEN Summary(Len(mail.rows), mail.sent_count, mail.failed_count)
                                      ELSE MailFailed ]
            /\ mail' = NoMail
            /\ pc' = "completed"
            /\ hist' = [ hist EXCEPT !.regen.done = TRUE, !.mailrun.outcome = "returned" ]
            /\ UNCHANGED call
       ELSE /\ hist' = [ hist EXCEPT !.mailrun.processed = Append(@, mail.rows[mail.idx].customer_id) ]
            /\ IF initial_state.campaign_strategy = Null
               THEN /\ mail' = MailFail(mail)
                    /\ UNCHANGED <<initial_state, pc, call>>
               ELSE /\ mail' = [ mail EXCEPT !.phase = "generate", !.retries = 0, !.backend = 0 ]
                    /\ call' = NewCall("email", "send_campaign_emails", <<>>)
                    /\ UNCHANGED <<initial_state, pc>>
    /\ UNCHANGED <<ss, i, wf, output>>

\* the while loop goes round once more than max_retries
ContentRetry_more(m) == IF m.retries < MaxContentRetries
                        THEN [ m EXCEPT !.retries = @ + 1, !.backend = @ + 1 ]
                        ELSE [ MailFail(m) EXCEPT !.backend = m.backend + 1 ]

\* one more round of the while loop of generate_content_with_retry, or "" after the last
ContentRetry(m) == IF m.retries + 1 < MaxContentRetries
                   THEN [ m EXCEPT !.retries = @ + 1, !.backend = @ + 1 ]
                   ELSE [ MailFail(m) EXCEPT !.backend = m.backend + 1 ]

\* llm.invoke returns inside generate_content_with_retry
MailInvokeReturn ==
    /\ UNCHANGED <<index, feedback>>
    /\ call.owner = "email"
    /\ \E r \in MailResponses :
         IF r = "text"
         THEN /\ mail' = [ mail EXCEPT !.phase = "deliver", !.backend = @ + 1 ]
              /\ call' = NoCall
         ELSE IF r = "empty"
         THEN /\ mail' = [ MailFail(mail) EXCEPT !.backend = mail.backend + 1 ]
              /\ call' = NoCall
         ELSE /\ mail' = ContentRetry(mail)
              /\ call' = IF mail'.phase = "generate" THEN NewCall("email", call.node, <<>>) ELSE NoCall
    /\ UNCHANGED <<ss, pc, i, wf, output, initial_state, hist>>

\* llm.invoke raises inside generate_content_with_retry: tenacity retries, and its
\* RetryError is caught by the while loop
MailInvokeError ==
    /\ UNCHANGED <<index, feedback>>
    /\ call.owner = "email"
    /\ \E msg \in ErrorMessages :
         IF ~GivesUp(call.attempts + 1)
         THEN /\ call' = [ call EXCEPT !.attempts = @ + 1 ]
              /\ mail' = [ mail EXCEPT !.backend = @ + 1 ]
         ELSE /\ mail' = ContentRetry(mail)
              /\ call' = IF mail'.phase = "generate" THEN NewCall("email", call.node, <<>>) ELSE NoCall
    /\ UNCHANGED <<ss, pc, i, wf, output, initial_state, hist>>

\* the message is built and server.send_message(msg) is called
MailDeliver ==
    /\ UNCHANGED <<index, feedback>>
    /\ pc = "regen"
    /\ mail.phase = "deliver"
    /\ \E d \in {"sent", "raises"} :
         IF d = "sent"
         THEN /\ initial_state' = [ initial_state EXCEPT
                                      !.email_templates = StoreTemplate(@, Template(mail.rows[mail.idx])) ]
              /\ mail' = [ mail EXCEPT !.phase = "recipient", !.idx = @ + 1, !.sent_count = @ + 1,
                                       !.sent_emails = Append(@, SentRecord(mail.rows[mail.idx])) ]
              /\ hist' = IF hist.firstSent = <<>>
                         THEN [ hist EXCEPT !.firstSent = << Template(mail.rows[mail.idx]) >> ]
                         ELSE hist
         ELSE /\ mail' = MailFail(mail)
              /\ UNCHANGED <<initial_state, hist>>
    /\ UNCHANGED <<ss, pc, i, wf, output, call>>

(***************************************************************************)
(* Regeneration of one section on the State of a finished run.             *)
(***************************************************************************)
\* Regenerate button of render_section: new_state = AGENT_REGISTRY[node_name](state_obj)
Regenerate ==
    /\ UNCHANGED <<index, feedback>>
    /\ pc = "completed"
    /\ hist.regens < MaxRegens
    /\ \E n \in 1..Len(AGENT_REGISTRY), so \in SearchOutcomes, tavily \in {"ok", "raises"} :
         LET node == AGENT_REGISTRY[n] IN
         IF node = "send_campaign_emails"
         THEN /\ SendEmailsBegin
              /\ UNCHANGED call
         ELSE /\ IF PreludeRaises(node, initial_state, tavily)
                 THEN /\ hist' = [ hist EXCEPT !.regen = [ node |-> node, done |-> TRUE, response |-> "" ], !.regens = @ + 1 ]
                      /\ UNCHANGED <<pc, call>>
                 ELSE /\ call' = NewCall("regen", node, Context(node, initial_state, so))
                      /\ pc' = "regen"
                      /\ hist' = [ hist EXCEPT !.regen = [ node |-> node, done |-> FALSE, response |-> "" ], !.regens = @ + 1,
                                               !.last = NoInvoke,
                                               !.ctxSource = CtxSource(node, initial_state, so) ]
              /\ UNCHANGED <<initial_state, mail>>
    /\ UNCHANGED <<ss, i, wf, output>>

\* the session and State at the end of a run in which every stage got response r
FinishedState(d, l, v, r) ==
    [ CampaignState(Goal, v, d, l) EXCEPT
        !.market_analysis = StageValue("research_market_trends", r),
        !.audience_segments = StageValue("segment_audience", r),
        !.campaign_strategy = StageValue("create_campaign_strategy", r),
        !.campaign_content = StageValue("generate_content", r),
        !.simulation_results = StageValue("simulate_campaign", r),
        !.final_report = StageValue("generate_final_report", r) ]

FinishedTabs(s) == [ t \in 0..5 |-> [ node |-> AGENT_REGISTRY[t + 1],
                                      content |-> s[node_to_content[AGENT_REGISTRY[t + 1]]] ] ]

\* the state in which a run has just finished: the starting point of regeneration
InitRegen ==
    \E d \in Domains, l \in Providers, v \in {"handle", "None"}, r \in Responses :
       /\ initial_state = FinishedState(d, l, v, r)
       /\ wf = initial_state
       /\ ss = [ SessionInit(d, l) EXCEPT !.generated = TRUE, !.active_tab = 5,
                                          !.tab_contents = FinishedTabs(initial_state) ]
       /\ pc = "completed"
       /\ i = 6
       /\ output = "generate_final_report"
       /\ call = NoCall
       /\ mail = NoMail
       /\ hist = [ HistInit EXCEPT !.executed = workflow_nodes, !.returned = workflow_nodes,
                                   !.anyCall = TRUE, !.onlyRate = FALSE, !.ended = "completed" ]
       /\ index = [ NoIndex(Corpus(BatchSize)) EXCEPT
                      !.entries = IF v = "handle" THEN Corpus(BatchSize) ELSE <<>>,
                      !.cached = v, !.builds = 1 ]
       /\ feedback = NoFeedback

NextRegen == \/ Regenerate
             \/ InvokeReturn
             \/ InvokeRetry
             \/ InvokeGiveUp
             \/ MailRecipient
             \/ MailInvokeReturn
             \/ MailInvokeError
             \/ MailDeliver

SpecRegen == InitRegen /\ [][NextRegen]_vars

\* every state in which a run of Spec has finished is a starting state of SpecRegen,
\* up to the responses the stages got
FinishedShape ==
    (pc = "completed" /\ hist.regens = 0) =>
        /\ \E r \in [ 1..6 -> Responses ] :
              initial_state = [ FinishedState(ss.selected_domain, ss.selected_llm, initial_state.vector_db, "text")
                                EXCEPT !.market_analysis = StageValue("research_market_trends", r[1]),
                                       !.audience_segments = StageValue("segment_audience", r[2]),
                                       !.campaign_strategy = StageValue("create_campaign_strategy", r[3]),
                                       !.campaign_content = StageValue("generate_content", r[4]),
                                       !.simulation_results = StageValue("simulate_campaign", r[5]),
                                       !.final_report = StageValue("generate_final_report", r[6]) ]
        /\ ss.tab_contents = FinishedTabs(initial_state)
        /\ ss.generated /\ ~ss.generation_complete /\ ss.state = NoState /\ ss.active_tab = 5
        /\ wf = initial_state /\ i = 6 /\ output = "generate_final_report"
        /\ call = NoCall /\ mail = NoMail

(***************************************************************************)
(* Properties of the pipeline run (specification Spec).                    *)
(***************************************************************************)
IsPrefix(p, q) == Len(p) <= Len(q) /\ p = SubSeq(q, 1, Len(p))

SixStages == << "research_market_trends", "segment_audience", "create_campaign_strategy",
                "generate_content", "simulate_campaign", "generate_final_report" >>

SevenStages == Append(SixStages, "send_campaign_emails")

\* the output fields of a State that hold a value
Populated(s) == IF s = NoState THEN {}
                ELSE { n \in 1..Len(OutputFields) : IsSet(s, OutputFields[n]) }

C3_RateLimitedRunCompletes ==
    (hist.anyCall /\ hist.onlyRate /\ hist.ended # "") =>
        /\ hist.ended = "completed"
        /\ \A n \in 1..Len(SixStages) :
              initial_state[node_to_content[SixStages[n]]] = Fallback[SixStages[n]]

\* C4: once the backend has failed with an authentication-classified error in a
\* stage of the run, the run fails at that stage: the stage does not return and no
\* later stage is executed.
C4_AuthErrorFailsRun ==
    hist.last.sawAuth => pc \in {"stage", "failed"}

\* C5: an authentication-classified error is not retried: the call ends after exactly
\* one attempt, with the ValueError about API authentication as the reported failure.
C5_AuthErrorNotRetried ==
    hist.last.class = "authentication" =>
        hist.last.attempts = 1 /\ hist.last.result = "ValueError" /\ call = NoCall

\* C6: a call of safe_llm_invoke makes at most 5 backend attempts; a rate-limited
\* attempt is followed by a retry while fewer than 5 attempts have been made, and the
\* 5th failed attempt ends the call.
C6_AtMostFiveAttempts ==
    /\ call.attempts <= 4
    /\ hist.last.attempts <= 5
    /\ (call.owner \in {"run", "regen"} => hist.last.attempts = call.attempts)
    /\ (hist.last.class = "rate_limit" /\ hist.last.attempts < 5 =>
            hist.last.result = "retrying" /\ call.owner # "none")
    /\ (hist.last.class # "" /\ hist.last.attempts = 5 =>
            hist.last.result = "RetryError" /\ call = NoCall)

C6_Witness == /\ hist.last.attempts = 5
              /\ hist.last.class = "rate_limit"
              /\ hist.last.result = "RetryError"
              /\ hist.onlyRate

\* C8: a stop requested when stage i has returned and stage i+1 has not started ends
\* the run in the stopped state with exactly the output fields of stages 1..i set.
C8_StopKeepsCompletedStages ==
    (hist.ended = "stopped" /\ hist.stop.marked /\ ~hist.stop.inflight) =>
        Populated(initial_state) = 1..hist.stop.returned

\* C9: when the last stage of an uncancelled run has returned, the run is marked
\* complete (generation_complete) and the final State is stored as the session's state.
C9_CompletionRecorded ==
    hist.ended = "completed" => ss.generation_complete /\ ss.state = initial_state

\* the key of the default text block that belongs to each value of selected_domain
ExpectedKey(d) ==
    IF d = <<"h","e","a","l","t","h","c","a","r","e">> THEN <<"h","e","a","l","t","h","c","a","r","e">>
    ELSE IF d = <<"P","o","w","e","r","-","E","n","e","r","g","y">>
         THEN <<"p","o","w","e","r","e","n","e","r","g","y">>
    ELSE <<"a","u","t","o","m","o","b","i","l","e","s">>

\* C10: in the segment and strategize stages, when the retrieval index is absent or
\* the similarity search raises, the stage does not fail: its reference context is
\* the default block of the State's domain (the automobile block for a domain that
\* is no key) and the generation call is made.
C10_DefaultContext ==
    /\ (pc = "stage" /\ hist.ctxSource \in {"absent", "error"}) =>
          /\ call.owner = "run"
          /\ call.node \in {"segment_audience", "create_campaign_strategy"}
          /\ call.ctx = << IF call.node = "segment_audience" THEN "default_segments"
                           ELSE "default_campaigns",
                           ExpectedKey(wf.selected_domain) >>
    /\ (pc = "stage" /\ call.node \in {"segment_audience", "create_campaign_strategy"}
          /\ wf.vector_db = "None") => hist.ctxSource = "absent"
    /\ (pc = "failed" /\ hist.executed # <<>>
          /\ hist.executed[Len(hist.executed)] \in {"segment_audience", "create_campaign_strategy"}) =>
          hist.last.result = "RetryError"

C10_Witness == /\ pc = "stage"
               /\ call.node = "create_campaign_strategy"
               /\ hist.ctxSource = "error"
               /\ call.ctx = << "default_campaigns", K_powerenergy >>
               /\ hist.last.attempts >= 1

\* C20: when a stage's generation call returns without error but with an empty
\* result, the stage stores its literal fallback string in its output field; a stage
\* never sets an output field to the empty string.
C20_EmptyResultDegrades ==
    /\ \A n \in 1..Len(workflow_nodes) : initial_state[node_to_content[workflow_nodes[n]]] # ""
    /\ (pc = "completed" /\ hist.regen.done /\ hist.regen.response \in {"empty", "none"}) =>
          initial_state[node_to_content[hist.regen.node]] = Fallback[hist.regen.node]

(***************************************************************************)
(* Repeated calls of send_campaign_emails on one State (SpecEmail).        *)
(***************************************************************************)
\* calls of send_campaign_emails made on one State
MaxSends == 2

\* send_campaign_emails(state) is called on the State of a finished run
SendCampaignEmails ==
    /\ UNCHANGED <<index, feedback>>
    /\ pc = "completed"
    /\ hist.regens < MaxSends
    /\ SendEmailsBegin
    /\ UNCHANGED <<ss, i, wf, output, call>>

NextEmail == \/ SendCampaignEmails
             \/ MailRecipient
             \/ MailInvokeReturn
             \/ MailInvokeError
             \/ MailDeliver

\* the State of a finished run that had its index and used the default provider
InitEmail == /\ InitRegen
             /\ initial_state.vector_db = "handle"
             /\ initial_state.selected_llm = "gemini"

SpecEmail == InitEmail /\ [][NextEmail]_vars

\* the rows of a list that pass the filter, by customer id
ValidIds(rows) == [ n \in 1..Len(SelectSeq(rows, HasEmail)) |-> SelectSeq(rows, HasEmail)[n].customer_id ]

\* a call of send_campaign_emails went through its loop and stored its summary
LoopSummarised == /\ pc = "completed"
                  /\ hist.mailrun.outcome = "returned"
                  /\ hist.mailrun.cause = ""
                  /\ initial_state.email_status # <<>>
                  /\ initial_state.email_status[1] = "Summary"

\* C11: the send-emails stage takes up every row with a non-empty email exactly once
\* and no row with an empty email; at the end the success count plus the failure
\* count is the number of rows with a non-empty email, and sent_emails holds one
\* record per successful send.
C11_EveryValidRowOnce ==
    LoopSummarised =>
        /\ hist.mailrun.processed = ValidIds(hist.mailrun.input)
        /\ initial_state.email_status[3] + initial_state.email_status[4]
              = Len(SelectSeq(hist.mailrun.input, HasEmail))
        /\ Len(initial_state.sent_emails) = initial_state.email_status[3]

InitIndex == /\ \E d \in Domains, l \in Providers : ss = SessionInit(d, l)
             /\ pc = "not_started"
             /\ i = 0
             /\ wf = NoState
             /\ output = ""
             /\ initial_state = NoState
             /\ call = NoCall
             /\ mail = NoMail
             /\ hist = HistInit
             /\ \E n \in 0..MaxDocs : index = NoIndex(Corpus(n))
             /\ feedback = NoFeedback

\* the process is started again: st.cache_resource is empty, the persist
\* directories are as they were left
Restart ==
    /\ index.cached # "no"
    /\ index' = [ index EXCEPT !.cached = "no" ]
    /\ UNCHANGED <<ss, pc, i, wf, output, initial_state, call, mail, hist, feedback>>

\* cached_initialize_vector_db(domain, model_provider) on a cache miss
CachedInitializeVectorDb ==
    /\ index.cached = "no"
    /\ index.builds < MaxBuilds
    /\ \E o \in BuildOutcomes(AllDocs(index.corpus)) :
         index' = [ index EXCEPT !.entries = InitializeVectorDb(@, index.corpus, o),
                                 !.cached = IF BuildValue(o) = "raise" THEN "no" ELSE BuildValue(o),
                                 !.builds = IF o.written THEN @ + 1 ELSE @ ]
    /\ UNCHANGED <<ss, pc, i, wf, output, initial_state, call, mail, hist, feedback>>

\* process_all_subfolders of chunks.py: "if docs: embed_and_store(docs, ...)", and
\* embed_and_store called with reset=False
ProcessSubfolder ==
    /\ index.corpus # <<>>
    /\ index.stores < MaxBuilds
    /\ \E reset \in BOOLEAN :
         index' = [ index EXCEPT !.collection = EmbedAndStore(@, index.corpus, reset),
                                 !.stores = @ + 1 ]
    /\ UNCHANGED <<ss, pc, i, wf, output, initial_state, call, mail, hist, feedback>>

NextIndex == \/ Restart
             \/ CachedInitializeVectorDb
             \/ ProcessSubfolder

SpecIndex == InitIndex /\ [][NextIndex]_vars

\* no two entries with the same key
NoDuplicateKeys(docs) == Cardinality(Keys(docs)) = Len(docs)

\* C13: index construction is idempotent: however often the index was built from
\* the same corpus of data rows, its entries are those of one build, no two of them
\* with the same key (source file, row number).
C13_IndexIdempotent ==
    /\ (index.builds >= 1 /\ index.corpus # <<>>) =>
          /\ NoDuplicateKeys(index.entries)
          /\ Keys(index.entries) \subseteq Keys(index.corpus)
    /\ index.stores >= 1 =>
          /\ NoDuplicateKeys(index.collection.docs)
          /\ Keys(index.collection.docs) = Keys(index.corpus)

\* what embed_and_store of chunks.py alone keeps: its collection holds each document
\* of the corpus once
EmbedAndStoreIdempotent ==
    index.stores >= 1 => index.collection = [ exists |-> TRUE, docs |-> index.corpus ]

\* the causes the stage meets while getting its credentials and recipients
RecipientCauses == { "credentials", "file_not_found", "load_error", "no_emails", "connect_error" }

C17_OneTemplate ==
    /\ Len(initial_state.email_templates) <= 1
    /\ initial_state.email_templates = hist.firstSent
    /\ Len(initial_state.sent_emails) >= 1 => initial_state.email_templates # <<>>

\* a second invocation has sent an email to another customer than the first one did,
\* and the template is still that of the first
C17_Witness == /\ pc = "completed"
               /\ hist.regens = 2
               /\ initial_state.email_templates = << Template(Row(1, TRUE)) >>
               /\ Len(initial_state.sent_emails) = 1
               /\ initial_state.sent_emails[1].customer_id = 2

\* C18: sent_emails is changed only by the send-emails stage and only by appending:
\* the records present before an invocation are still there, at the same positions,
\* after it, followed by the records the invocation added.
C18_SentEmailsAppendOnly ==
    [][ IsPrefix(initial_state.sent_emails, initial_state'.sent_emails) ]_vars

(***************************************************************************)
(* camp_build.py: the single-file builder and its run (SpecBuild).         *)
(***************************************************************************)
\* goals given to run_autonomous_campaign_builder(goal)
Goals == { Goal, "Increase residential solar panel installations by 35% in the Southern region this summer" }

\* CampaignState of camp_build.py
CampBuildState(goal) ==
    [ goal |-> goal, vector_db |-> "handle", market_analysis |-> Null, audience_segments |-> Null,
      campaign_strategy |-> Null, campaign_content |-> Null, simulation_results |-> Null,
      final_report |-> Null ]

\* nodes of build_campaign_workflow of camp_build.py, in the order of its edges
camp_build_nodes == << "research_market_trends", "segment_audience", "create_campaign_strategy",
                       "generate_content", "simulate_campaign", "generate_final_report" >>

\* what the generation call (and, for the retrieval stages, the search) of a stage
\* function of camp_build.py does: returns a message, returns a falsy value, raises
CampBuildResponses == {"text", "none", "raise"}

\* a stage function of camp_build.py raises for this answer: research when the
\* retries are used up, the two retrieval stages on any failure (they catch nothing)
CampBuildRaises(node, r) ==
    \/ node = "research_market_trends" /\ r = "raise"
    \/ node \in {"segment_audience", "create_campaign_strategy"} /\ r # "text"

\* the State a stage function of camp_build.py returns when it does not raise
CampBuildStage(node, s, r) ==
    IF node = "research_market_trends"
    THEN [ s EXCEPT !.market_analysis = IF r = "none" THEN "No insights available" ELSE Text ]
    ELSE IF node = "segment_audience" THEN [ s EXCEPT !.audience_segments = Text ]
    ELSE IF node = "create_campaign_strategy" THEN [ s EXCEPT !.campaign_strategy = Text ]
    ELSE IF node = "generate_content"
    THEN [ s EXCEPT !.campaign_content = IF r = "text" THEN Text ELSE "Content generation failed: error" ]
    ELSE IF node = "simulate_campaign"
    THEN [ s EXCEPT !.simulation_results = IF r = "text" THEN Text
                                           ELSE "Simulation incomplete due to error: error" ]
    ELSE [ s EXCEPT !.final_report = << "report", s.goal, s.market_analysis, s.audience_segments,
                                        s.campaign_strategy, s.campaign_content, s.simulation_results >> ]

InitBuild == /\ ss = SessionInit(<<"a","u","t","o","m","o","t","i","v","e","s">>, "gemini")
             /\ pc = "not_started"
             /\ i = 0
             /\ wf = NoState
             /\ output = ""
             /\ initial_state = NoState
             /\ call = NoCall
             /\ mail = NoMail
             /\ hist = HistInit
             /\ index = NoIndex(Corpus(BatchSize))
             /\ feedback = NoFeedback

\* run_autonomous_campaign_builder(goal) up to the stream: mock data, FAISS store,
\* workflow, initial_state
CampBuildStart ==
    /\ pc = "not_started"
    /\ \E goal \in Goals, store \in {"ok", "raise"} :
         IF store = "raise"
         THEN /\ pc' = "failed"
              /\ UNCHANGED <<initial_state, wf>>
         ELSE /\ initial_state' = CampBuildState(goal)
              /\ wf' = initial_state'
              /\ pc' = "cb_stream"
    /\ i' = 0
    /\ UNCHANGED <<ss, output, call, mail, hist, index, feedback>>

\* the graph runs its next node, in campaign_workflow.stream(initial_state) or in
\* campaign_workflow.invoke(initial_state)
CampBuildNode ==
    /\ pc \in {"cb_stream", "cb_invoke"}
    /\ i < Len(camp_build_nodes)
    /\ \E r \in CampBuildResponses :
         LET node == camp_build_nodes[i + 1]
             new  == CampBuildStage(node, wf, r)
         IN IF CampBuildRaises(node, r)
            THEN /\ pc' = "failed"
                 /\ hist' = [ hist EXCEPT !.executed = Append(@, node), !.ended = "failed" ]
                 /\ UNCHANGED <<wf, i, output>>
            ELSE /\ wf' = new
                 /\ i' = i + 1
                 /\ output' = node
                 /\ hist' = [ hist EXCEPT !.executed = Append(@, node), !.returned = Append(@, node) ]
                 /\ UNCHANGED pc
    /\ UNCHANGED <<ss, initial_state, call, mail, index, feedback>>

\* the stream is exhausted: final_state = campaign_workflow.invoke(initial_state)
\* starts the graph again on initial_state
CampBuildInvoke ==
    /\ pc = "cb_stream"
    /\ i = Len(camp_build_nodes)
    /\ pc' = "cb_invoke"
    /\ i' = 0
    /\ wf' = initial_state
    /\ UNCHANGED <<ss, output, initial_state, call, mail, hist, index, feedback>>

\* invoke returns: return final_state["final_report"]
CampBuildReturn ==
    /\ pc = "cb_invoke"
    /\ i = Len(camp_build_nodes)
    /\ pc' = "completed"
    /\ hist' = [ hist EXCEPT !.ended = "completed" ]
    /\ UNCHANGED <<ss, i, wf, output, initial_state, call, mail, index, feedback>>

NextBuild == \/ CampBuildStart
             \/ CampBuildNode
             \/ CampBuildInvoke
             \/ CampBuildReturn

SpecBuild == InitBuild /\ [][NextBuild]_vars

\* how often a stage occurs in a sequence of stages
Count(seq, node) == Cardinality({ k \in 1..Len(seq) : seq[k] = node })

\* C14: during one pipeline run each stage function is executed at most once, so each
\* stage's output field is written at most once.
C14_WrittenOncePerRun ==
    \A n \in 1..Len(AGENT_REGISTRY) :
        /\ Count(hist.executed, AGENT_REGISTRY[n]) <= 1
        /\ Count(hist.returned, AGENT_REGISTRY[n]) <= 1

\* the position in the registry of the stage that owns an output field
OwnerOf(f) == CHOOSE n \in 1..Len(AGENT_REGISTRY) : node_to_content[AGENT_REGISTRY[n]] = f

\* C15: in a pipeline run, whenever a stage starts, every output field it reads has
\* been written by an earlier stage of the same run; no stage reads a field owned by
\* a later stage.
C15_ReadsAreWritten ==
    /\ \A n \in 1..Len(AGENT_REGISTRY) : \A f \in Reads(AGENT_REGISTRY[n]) : OwnerOf(f) < n
    /\ (pc = "stage" /\ call.owner = "run") =>
          \A f \in Reads(call.node) :
             /\ wf[f] # Null
             /\ \E k \in 1..Len(hist.returned) : hist.returned[k] = AGENT_REGISTRY[OwnerOf(f)]
    /\ (pc = "failed" /\ hist.executed # <<>>) =>
          \A f \in Reads(hist.executed[Len(hist.executed)]) : wf[f] # Null

\* the report stage, which reads the five earlier fields, has started
C15_Witness == /\ pc = "stage"
               /\ call.owner = "run"
               /\ call.node = "generate_final_report"
               /\ Reads(call.node) = { "market_analysis", "audience_segments", "campaign_strategy",
                                       "campaign_content", "simulation_results" }
               /\ Len(hist.returned) = 5

\* C19: in the segment and strategize stages, when the index is available and the
\* similarity search returns no document at all, the stage uses the default
\* reference text of the State's domain as its context, as when the index is
\* unavailable; the context put in the prompt is never empty.
C19_DefaultOnEmptySearch ==
    /\ (pc = "stage" /\ call.owner = "run" /\ hist.ctxSource = "nodocs") =>
          call.ctx = << IF call.node = "segment_audience" THEN "default_segments"
                        ELSE "default_campaigns",
                        ExpectedKey(wf.selected_domain) >>
    /\ (pc = "stage" /\ call.owner = "run" /\ UsesRetrieval(call.node)) => call.ctx # <<>>

(***************************************************************************)
(* Properties of regeneration (specification SpecRegen).                   *)
(***************************************************************************)
StateFields == { "goal", "vector_db", "selected_domain", "selected_llm", "market_analysis",
                 "audience_segments", "campaign_strategy", "campaign_content", "simulation_results",
                 "final_report", "email_status", "sent_emails", "email_templates" }

\* the fields of the State that differ between two values of it
Changed(s, t) == { f \in StateFields : s[f] # t[f] }

\* C7 as stated: regenerating stage k changes only the output field owned by stage k,
\* for every k in 1..7, the send-emails stage included.
C7_OnlyOwnFieldChanges ==
    [][ Changed(initial_state, initial_state') \subseteq { node_to_content[hist'.regen.node] } ]_vars

\* C7 amended: regenerating stage k, k in 1..6, changes only the output field owned by
\* stage k; regenerating the send-emails stage changes email_status and may also change
\* sent_emails and email_templates; every other field keeps its value.
C7_RegenerationFrame ==
    [][ Changed(initial_state, initial_state') \subseteq
           IF hist'.regen.node = "send_campaign_emails"
           THEN { "email_status", "sent_emails", "email_templates" }
           ELSE { node_to_content[hist'.regen.node] } ]_vars

C7_Witness == /\ hist.regen.done
              /\ hist.regen.node = "segment_audience"
              /\ pc = "completed"
              /\ initial_state.audience_segments = "Audience segmentation failed"
              /\ initial_state.market_analysis = Text
              /\ initial_state.campaign_strategy = Text

(***************************************************************************)
(* Propagation of failures of the generation call (specification Spec).    *)
(***************************************************************************)
\* C21: only authentication-class errors propagate out of a stage function; every
\* other failure of the generation call (rate limit after exhausted retries,
\* timeout, any other backend exception) is absorbed inside the stage and shows up
\* only as the fallback text in the stage's output field.
C21_OnlyAuthErrorsPropagate ==
    (pc = "failed" /\ hist.last.result = "RetryError") => hist.last.class = "authentication"

(***************************************************************************)
(* get_llm (core/llm.py): selection of the provider (SpecLlm).             *)
(***************************************************************************)
S_openai == <<"o","p","e","n","a","i">>

S_gemini == <<"g","e","m","i","n","i">>

\* values of the model_provider argument; given = FALSE is None
ProviderArgs == { [ given |-> FALSE, name |-> <<>> ] } \cup
                { [ given |-> TRUE, name |-> n ] :
                    n \in { S_openai, <<"O","p","e","n","A","I">>, <<"O","P","E","N","A","I">>,
                            S_gemini, <<"G","e","m","i","n","i">>, <<"c","l","a","u","d","e">>,
                            <<"o","p","e","n","-","a","i">>, <<>> } }

\* what "import streamlit" and st.session_state offer when the argument is None
SessionLlms == { [ streamlit |-> FALSE, has |-> FALSE, name |-> <<>> ],
                 [ streamlit |-> TRUE, has |-> FALSE, name |-> <<>> ],
                 [ streamlit |-> TRUE, has |-> TRUE, name |-> S_gemini ],
                 [ streamlit |-> TRUE, has |-> TRUE, name |-> S_openai ] }

\* os.environ.get("OPENAI_API_KEY"): a key, the empty string, or None
ApiKeys == {"sk-key", "", "<unset>"}

\* truth value of the key in "model_provider == 'openai' and OPENAI_API_KEY"
KeyPresent(key) == key \notin {"", "<unset>"}

\* the provider name after the None branch and the lower-casing
RequestedProvider(arg, session) ==
    LET named == IF arg.given THEN arg.name
                 ELSE IF session.streamlit /\ session.has THEN session.name
                 ELSE S_gemini
    IN IF named = <<>> THEN S_gemini ELSE Lower(named)

\* the key is not looked at
get_llm_nokey(arg, session, key) ==
    IF RequestedProvider(arg, session) = S_openai THEN "ChatOpenAI" ELSE "ChatGoogleGenerativeAI"

\* the client get_llm returns
get_llm(arg, session, key) ==
    IF RequestedProvider(arg, session) = S_openai /\ KeyPresent(key)
    THEN "ChatOpenAI" ELSE "ChatGoogleGenerativeAI"

InitLlm == /\ ss = SessionInit(<<"a","u","t","o","m","o","t","i","v","e","s">>, "gemini")
           /\ pc = "get_llm"
           /\ i = 0
           /\ wf = NoState
           /\ output = ""
           /\ initial_state = NoState
           /\ \E arg \in ProviderArgs, session \in SessionLlms, key \in ApiKeys :
                 call = [ owner |-> "get_llm", arg |-> arg, session |-> session, key |-> key ]
           /\ mail = NoMail
           /\ hist = HistInit
           /\ index = NoIndex(<<>>)
           /\ feedback = NoFeedback

\* one call of get_llm
GetLlm == /\ pc = "get_llm"
          /\ output' = get_llm(call.arg, call.session, call.key)
          /\ pc' = "llm"
          /\ UNCHANGED <<ss, i, wf, initial_state, call, mail, hist, index, feedback>>

NextLlm == GetLlm

SpecLlm == InitLlm /\ [][NextLlm]_vars

\* the spellings of "openai" among the inputs
OpenAiSpellings == { S_openai, <<"O","p","e","n","A","I">>, <<"O","P","E","N","A","I">> }

\* the name a call asks for: the argument, or the session's choice when the argument is None
AskedFor(c) == IF c.arg.given THEN c.arg.name
               ELSE IF c.session.streamlit /\ c.session.has THEN c.session.name ELSE <<>>

\* C22: get_llm returns the OpenAI client only when "openai" is requested, in any
\* letter case, and its API key is present; for every other provider value, and for
\* "openai" without a key, it returns the client of the default provider, Gemini.
C22_ProviderFallback ==
    pc = "llm" =>
       output = IF AskedFor(call) \in OpenAiSpellings /\ call.key = "sk-key"
                THEN "ChatOpenAI" ELSE "ChatGoogleGenerativeAI"

C22_Witness == /\ pc = "llm"
               /\ call.arg.given
               /\ call.arg.name = <<"O","p","e","n","A","I">>
               /\ call.key = ""
               /\ output = "ChatGoogleGenerativeAI"

(***************************************************************************)
(* The waits of safe_llm_invoke: time.sleep in the rate-limit branch and   *)
(* wait_exponential(multiplier=1, min=5, max=60) of the decorator          *)
(* (SpecBackoff).                                                          *)
(***************************************************************************)
\* wait_time = 30  # Base wait time
BaseWait == 30

\* delays a provider puts in its error text as "seconds: N"
SuggestedSeconds == {7, 40}

\* an error of the backend: the marker terms of its message, whether the message
\* contains "retry_delay", and the number after "seconds: " (0: the pattern is absent)
BackendErrors ==
    { [ terms |-> t, retry_delay |-> rd, seconds |-> s ] :
        t \in { {"429", "quota"}, {"quota", "key"} }, rd \in BOOLEAN, s \in SuggestedSeconds \cup {0} }
    \cup { [ terms |-> t, retry_delay |-> FALSE, seconds |-> 0 ] : t \in { {"401", "auth"}, {"timeout"} } }

\* the argument of time.sleep in the except clause; 0 when the branch does not sleep
wait_time(e) == IF Classify(e.terms) # "rate_limit" THEN 0
                ELSE IF e.retry_delay /\ e.seconds # 0 THEN e.seconds * 2
                ELSE BaseWait

\* wait_exponential(multiplier=1, min=5, max=60) after the attempt of this number:
\* max(min, min(multiplier * 2^(attempt_number - 1), max))
wait_exponential(attempt_number) ==
    LET result == 1 * 2 ^ (attempt_number - 1)
    IN IF result > 60 THEN 60 ELSE IF result < 5 THEN 5 ELSE result

InitBackoff == /\ ss = SessionInit(<<"a","u","t","o","m","o","t","i","v","e","s">>, "gemini")
               /\ pc = "invoke"
               /\ i = 0
               /\ wf = NoState
               /\ output = ""
               /\ initial_state = NoState
               /\ call = [ owner |-> "safe_llm_invoke", attempts |-> 0, sleeps |-> <<>> ]
               /\ mail = NoMail
               /\ hist = HistInit
               /\ index = NoIndex(<<>>)
               /\ feedback = NoFeedback

\* llm.invoke raises, the except clause sleeps and raises, tenacity waits and calls again
BackoffRetry ==
    /\ pc = "invoke"
    /\ ~GivesUp(call.attempts + 1)
    /\ \E e \in BackendErrors :
         call' = [ call EXCEPT !.attempts = @ + 1,
                               !.sleeps = Append(@, [ error |-> e, slept |-> wait_time(e),
                                                      raised |-> Raised(e.terms),
                                                      waited |-> wait_exponential(call.attempts + 1) ]) ]
    /\ UNCHANGED <<ss, pc, i, wf, output, initial_state, mail, hist, index, feedback>>

\* llm.invoke raises on the last attempt: the except clause still sleeps, then RetryError
BackoffGiveUp ==
    /\ pc = "invoke"
    /\ GivesUp(call.attempts + 1)
    /\ \E e \in BackendErrors :
         /\ call' = [ call EXCEPT !.attempts = @ + 1 ]
         /\ output' = Raised(e.terms)
    /\ pc' = "RetryError"
    /\ UNCHANGED <<ss, i, wf, initial_state, mail, hist, index, feedback>>

\* llm.invoke returns
BackoffReturn ==
    /\ pc = "invoke"
    /\ call' = [ call EXCEPT !.attempts = @ + 1 ]
    /\ pc' = "returned"
    /\ UNCHANGED <<ss, i, wf, output, initial_state, mail, hist, index, feedback>>

NextBackoff == \/ BackoffRetry
               \/ BackoffGiveUp
               \/ BackoffReturn

SpecBackoff == InitBackoff /\ [][NextBackoff]_vars

\* the time between a failed attempt and the next one: the sleep of the except
\* clause alone, or that sleep and the wait of the decorator
Pause(s, whole) == IF whole THEN s.slept + s.waited ELSE s.slept

\* the delay the provider suggested in an error, 0 when it carries none
Suggested(e) == IF e.retry_delay /\ e.seconds # 0 THEN e.seconds ELSE 0

\* C23: after a rate-limit failure the pause before the next attempt is the delay the
\* provider suggested when the error carries one, and otherwise a fixed base delay
\* doubled with each further retry of the call (base, 2*base, 4*base, ...); stated
\* for either way of measuring the pause and for any base up to 60 seconds.
C23_BackoffSchedule ==
    \E whole \in BOOLEAN, base \in 1..60 :
       \A k \in 1..Len(call.sleeps) :
          LET s == call.sleeps[k] IN
          Classify(s.error.terms) = "rate_limit" =>
             Pause(s, whole) = IF Suggested(s.error) # 0 THEN Suggested(s.error)
                               ELSE base * 2 ^ (k - 1)

(***************************************************************************)
(* Calls of init_feedback_csv and save_node_feedback (SpecFeedback).       *)
(***************************************************************************)
\* number of save_node_feedback calls followed
MaxFeedback == 3

\* the node names the dashboard passes
FeedbackNodes == { "research_market_trends", "generate_content" }

\* the ratings passed: the two texts of the dashboard buttons, and a number
UserRatings == { [ int |-> FALSE, str |-> "Positive Feedback", num |-> 0 ],
                 [ int |-> FALSE, str |-> "Negative Feedback", num |-> 0 ],
                 [ int |-> TRUE, str |-> "", num |-> 4 ] }

Submitted == "Feedback submitted!"

\* a file with one entry, written before the process started
ExistingFile == << FeedbackColumns, << "test-id", "2023-01-01T12:00:00", "test_node", "5" >> >>

NoFeedbackCall == [ owner |-> "none", node_name |-> "", user_rating |-> "", result |-> "" ]

InitFeedback ==
    /\ ss = SessionInit(<<"a","u","t","o","m","o","t","i","v","e","s">>, "gemini")
    /\ pc = "not_started"
    /\ i = 0
    /\ wf = NoState
    /\ output = ""
    /\ initial_state = NoState
    /\ call = NoFeedbackCall
    /\ mail = NoMail
    /\ hist = HistInit
    /\ index = NoIndex(<<>>)
    /\ feedback \in { NoFeedback,
                      [ NoFeedback EXCEPT !.dir = TRUE ],
                      [ NoFeedback EXCEPT !.dir = TRUE, !.exists = TRUE, !.lines = ExistingFile ] }

InitFeedbackCsv ==
    /\ feedback' = init_feedback_csv(feedback)
    /\ call' = [ NoFeedbackCall EXCEPT !.owner = "init_feedback_csv", !.result = "None" ]
    /\ UNCHANGED <<ss, pc, i, wf, output, initial_state, mail, hist, index>>

\* to_csv raises when the directory is missing; otherwise the row is appended and the
\* message returned. The clock has moved on, or not, since the call before.
SaveNodeFeedback ==
    /\ feedback.calls < MaxFeedback
    /\ \E node_name \in FeedbackNodes, user_rating \in UserRatings, tick \in {0, 1} :
         LET fb == [ feedback EXCEPT !.now = @ + tick, !.calls = @ + 1 ]
         IN IF ~feedback.dir
            THEN /\ feedback' = [ fb EXCEPT !.uuids = @ + 1 ]
                 /\ call' = [ owner |-> "save_node_feedback", node_name |-> node_name,
                              user_rating |-> CsvField(user_rating), result |-> "OSError" ]
            ELSE /\ feedback' = save_node_feedback(fb, node_name, user_rating)
                 /\ call' = [ owner |-> "save_node_feedback", node_name |-> node_name,
                              user_rating |-> CsvField(user_rating), result |-> Submitted ]
    /\ UNCHANGED <<ss, pc, i, wf, output, initial_state, mail, hist, index>>

NextFeedback == \/ InitFeedbackCsv
                \/ SaveNodeFeedback

SpecFeedback == InitFeedback /\ [][NextFeedback]_vars

\* C24: init_feedback_csv is idempotent and non-destructive: with no feedback file it
\* creates the directory and a file that reads as the columns id, timestamp,
\* node_name, user_rating and zero rows; with a file present, any number of calls
\* leave the lines of the file unchanged.
C24_InitIdempotent ==
    [][ call'.owner = "init_feedback_csv" =>
           /\ feedback'.dir /\ feedback'.exists
           /\ IF feedback.exists
              THEN feedback'.lines = feedback.lines
              ELSE read_csv(feedback'.lines) = [ columns |-> FeedbackColumns, rows |-> <<>> ] ]_vars

C24_Witness == /\ call.owner = "init_feedback_csv"
               /\ feedback.calls = 2
               /\ Len(feedback.lines) = 3
               /\ feedback.lines[1] = FeedbackColumns

\* the values of the id column of a file
IdsOf(lines) == { lines[k][1] : k \in 2..Len(lines) }

\* C25: once init_feedback_csv has made the file, each save_node_feedback(node, rating)
\* appends exactly one row, after all the lines already there, carrying that node name
\* and rating, an id no earlier row has and the time of the call, and returns the
\* confirmation message; the earlier lines are unchanged.
C25_SaveAppendsOneRow ==
    [][ (call'.owner = "save_node_feedback" /\ feedback.dir /\ feedback.exists) =>
           /\ Len(feedback'.lines) = Len(feedback.lines) + 1
           /\ SubSeq(feedback'.lines, 1, Len(feedback.lines)) = feedback.lines
           /\ LET row == feedback'.lines[Len(feedback'.lines)]
              IN /\ row[3] = call'.node_name
                 /\ row[4] = call'.user_rating
                 /\ row[1] \notin IdsOf(feedback.lines)
                 /\ row[2] = IsoFormat[feedback'.now + 1]
           /\ call'.result = Submitted ]_vars

C25_Witness == /\ call.owner = "save_node_feedback"
               /\ feedback.calls = 3
               /\ Len(feedback.lines) = 4
               /\ feedback.lines[1] = FeedbackColumns
               /\ feedback.lines[2][3] = "research_market_trends"
               /\ feedback.lines[3][3] = "generate_content"
               /\ feedback.lines[4][4] = "4"

(***************************************************************************)
(* Cancellation and the session flags (specification Spec).                *)
(***************************************************************************)
\* C26: cancellation is checked between stages: once a stop is requested while stage i
\* is finished and stage i+1 has not started, no further stage function begins to
\* execute; when a stage is in flight at the time of the request, that stage alone is
\* completed.
C26_NoStageStartsAfterStop ==
    (hist.stop.marked /\ hist.stop.returned >= 1) =>
       Len(hist.executed) = hist.stop.returned + (IF hist.stop.inflight THEN 1 ELSE 0)

(***************************************************************************)
(* The generation call of one recipient (specification SpecEmail).         *)
(***************************************************************************)
\* C27 as stated: the generation call made for one recipient follows the retry rules
\* of any other generation call: at most 5 backend attempts are made for the recipient.
C27_FiveAttemptsPerRecipient == mail.backend <= StopAfterAttempt

\* C27 amended: for one recipient generate_content_with_retry calls safe_llm_invoke up
\* to 3 times, each call making up to 5 backend attempts, so at most 15 attempts are
\* made; when the generation ends without content the recipient is counted as one
\* failure and the loop goes on to the next recipient, nothing being raised.
C27_AttemptsPerRecipient ==
    [][ /\ mail'.backend <= MaxContentRetries * StopAfterAttempt
        /\ (call.owner = "email" /\ call'.owner # "email" /\ mail'.phase # "deliver") =>
              /\ mail'.failed_count = mail.failed_count + 1
              /\ mail'.sent_count = mail.sent_count
              /\ mail'.idx = mail.idx + 1
              /\ mail'.phase = "recipient"
              /\ pc' = "regen" ]_vars

C27_Witness == /\ mail.backend = MaxContentRetries * StopAfterAttempt
               /\ mail.phase = "recipient"
               /\ mail.failed_count = 1
               /\ mail.idx = 2
               /\ pc = "regen"

(***************************************************************************)
(* Classification of backend errors (specification SpecBackoff).           *)
(***************************************************************************)
HasRateLimitMarker(e) == \E t \in {"quota", "429", "rate limit", "too many requests"} : t \in e.terms

HasAuthMarker(e) == \E t \in {"authentication", "auth", "key", "unauthorized", "401"} : t \in e.terms

\* C28: safe_llm_invoke handles each backend error in exactly one way, the rate limit
\* first: an error with a rate-limit marker makes it sleep and raise the original
\* error again, also when the message has an authentication marker; the
\* authentication ValueError is raised only for an error with an authentication
\* marker and no rate-limit marker; any other error is raised again as it is,
\* without a sleep.
C28_RateLimitFirst ==
    \A k \in 1..Len(call.sleeps) :
       LET s == call.sleeps[k] IN
       IF HasRateLimitMarker(s.error) THEN s.slept > 0 /\ s.raised = "BackendError"
       ELSE IF HasAuthMarker(s.error) THEN s.slept = 0 /\ s.raised = "ValueError"
       ELSE s.slept = 0 /\ s.raised = "BackendError"

C28_Witness == /\ Len(call.sleeps) = 2
               /\ call.sleeps[1].error.terms = {"quota", "key"}
               /\ call.sleeps[1].raised = "BackendError"
               /\ call.sleeps[1].slept = BaseWait
               /\ call.sleeps[2].error.terms = {"401", "auth"}
               /\ call.sleeps[2].raised = "ValueError"

(***************************************************************************)
(* Regeneration in the dashboard (specification SpecRegen).                *)
(***************************************************************************)
\* C29: regenerating the section of node k sets the displayed content of node k's own
\* tab to the new value of field k and stores the regenerated State in the session;
\* the contents of all other tabs are unchanged, whichever tab was last active.
C29_RegenerateUpdatesOwnTab ==
    [][ (hist'.regen.done /\ ~hist.regen.done /\ hist'.regen.response \in StageResponses) =>
           LET k   == hist'.regen.node
               tab == TabOf(k)
           IN /\ ss'.tab_contents[tab].content = initial_state'[node_to_content[k]]
              /\ ss'.state = initial_state'
              /\ \A t \in (DOMAIN ss.tab_contents) \ {tab} : ss'.tab_contents[t] = ss.tab_contents[t] ]_vars

(***************************************************************************)
(* The stop flag across runs (specification Spec).                         *)
(***************************************************************************)
\* C30: a run started by Generate is never stopped by a Stop request made before that
\* Generate: a run is stopped only by a request made during the run; Generate and Back
\* leave stop_requested false and the tab contents empty; after a run was stopped the
\* flag stays true until the next Generate or Back.
C30_StopDoesNotOutliveGenerate ==
    /\ [] ( /\ pc = "stopped" => (hist.stop.marked /\ ss.stop_requested)
            /\ (ss.stop_requested /\ ~RunOver) => hist.stop.marked )
    /\ [][ ((pc' = "start" /\ pc # "start") \/ (pc' = "not_started" /\ pc # "not_started")) =>
              (~ss'.stop_requested /\ ss'.tab_contents = <<>>) ]_vars

C30_Witness == /\ hist.pending
               /\ pc = "next"
               /\ i = 0
               /\ ~ss.stop_requested
               /\ ss.generated

====
